---- MODULE Spec2Model ----
(***************************************************************************)
(* A model of bmaptools/BmapCopy.py: the BmapCopy session, its reader      *)
(* thread (_get_data) and the copy() loop that consumes the batch queue,   *)
(* and the BmapBdevCopy wrapper that tunes and restores a block device.    *)
(*                                                                         *)
(* Sizes are scaled down: a block is BlockSize bytes instead of 4096, a    *)
(* batch is BatchBytes bytes instead of 1 MiB.  Byte number i of the image *)
(* (counted from 0) has the value i + 1, the destination starts as all 0,  *)
(* so a destination byte tells which image byte was copied into it.        *)
(* SHA1 is modelled by the sum of the bytes modulo HashMod.                *)
(* A read of the image returns the bytes asked for, or the bytes left      *)
(* before the end of the image when these are fewer (Python 2 file,        *)
(* GzipFile and BZ2File objects all read this way).                        *)
(***************************************************************************)
EXTENDS Integers, Sequences, FiniteSets, TLC

\* ------------------------------------------------------------- bounds
MaxImageLen == 6          \* the image has 0..MaxImageLen bytes
MaxBlock == 2             \* block numbers in a bmap range: 0..MaxBlock
MaxMapped == 3            \* MappedBlocksCount of a bmap: 0..MaxMapped
MaxBlockSize == 5         \* block sizes of a bmap, for _get_batches alone
MaxLast == 5              \* block numbers given to _get_batches alone

\* ------------------------------------ program constants, scaled down
BlockSize == 2            \* bytes per block (4096, or the bmap's BlockSize)
BatchBytes == 4           \* _batch_bytes (1024 * 1024): two blocks a batch
WatermarkBytes == 4       \* 6 * 1024 * 1024, the sync watermark in bytes
HashMod == 2              \* number of distinct SHA1 digests

\* ------------------------------------------------- program constants
QueueLen == 2             \* _batch_queue_len of BmapCopy
BdevQueueLen == 6         \* _batch_queue_len of BmapBdevCopy

None == -1                \* Python's None, for the integer attributes

\* copy() raises Error with a message, named here after what it reports:
\* "IOReadError", "ChecksumMismatch", "RangeError" (raised in the reader
\* thread), "IOWriteError", "SyncError", "FlushError", "SizeMismatch"; and
\* "AssertionError", "AttributeError" for the exceptions of these classes.

ProdIds == {1, 2}         \* reader threads: one per copy() call

VARIABLES
    \* the session (BmapCopy.__init__)
    f_bmap,               \* TRUE iff a bmap was given (self._f_bmap)
    bmap_ranges,          \* the <Range> elements of the bmap, in order
    compressed,           \* _image_is_compressed
    image_len,            \* number of bytes the image holds
    block_size, blocks_cnt, mapped_cnt, image_size,
    batch_blocks, batch_queue_len, dest_fsync_watermark,
    is_bdev,              \* TRUE for a BmapBdevCopy session
    bdev_size,            \* capacity of the destination, in bytes
    \* the files
    image_pos,            \* position of _f_image
    dest,                 \* content of the destination, byte by byte
    dest_pos,             \* position of _f_dest
    \* one copy() call
    cpc,                  \* where the calling thread is
    verify,               \* argument of copy()
    saved_pos,            \* image_pos and dest_pos saved on entry
    batch_queue,          \* self._batch_queue
    blocks_written, fsync_last,
    result,               \* "none", "ok" or the error copy() raised
    prod,                 \* the reader threads, by ProdIds
    \* the block device (sysfs) and BmapBdevCopy's saved settings
    sysfs_scheduler, sysfs_max_ratio,
    scheduler_access,     \* what opening queue/scheduler "r+" gives
    max_ratio_access,     \* what opening bdi/max_ratio "r+" gives
    old_scheduler_value, old_max_ratio_value,
    \* history, for the properties
    total_read,           \* bytes the reader threads got from the image
    synced,               \* number of fsync calls that succeeded
    read_log,             \* (start, buf) of the batches read, in order
    write_log,            \* (start, buf) of the batches written, in order
    first_call,           \* how the first copy() call ended, once it is over
    pre_pos,              \* where the files were when copy() was called
    batches,              \* one run of _get_batches, taken alone
    restore_log           \* restoration attempts, in order

sessVars == <<f_bmap, bmap_ranges, compressed, image_len, block_size,
              batch_blocks, batch_queue_len, dest_fsync_watermark, is_bdev,
              bdev_size, scheduler_access, max_ratio_access>>
sizeVars == <<blocks_cnt, mapped_cnt, image_size>>
fileVars == <<image_pos, dest, dest_pos>>
callVars == <<cpc, verify, saved_pos, batch_queue, blocks_written, fsync_last,
              result, prod>>
bdevVars == <<sysfs_scheduler, sysfs_max_ratio, old_scheduler_value,
              old_max_ratio_value, restore_log>>
histVars == <<total_read, synced, read_log, write_log, first_call, pre_pos,
              batches>>
vars == <<sessVars, sizeVars, fileVars, callVars, bdevVars, histVars>>

\* ------------------------------------------------------------ helpers
Min(a, b) == IF a <= b THEN a ELSE b
Max(a, b) == IF a >= b THEN a ELSE b

\* Python truth value of an integer attribute: None and 0 are false
Falsy(x) == x = None \/ x = 0

RECURSIVE SumSeq(_)
SumSeq(s) == IF s = <<>> THEN 0 ELSE Head(s) + SumSeq(Tail(s))

\* hashlib: new('sha1'), update(buf), hexdigest()
HashNew == 0
HashUpdate(h, buf) == (h + SumSeq(buf)) % HashMod
SHA1(s) == HashUpdate(HashNew, s)

\* mutant of BlocksOf: the number of blocks is rounded down
BlocksOfBug(n, bs) == n \div bs

\* Number of blocks that 'n' bytes take: (n + block_size - 1) / block_size
BlocksOf(n, bs) == (n + bs - 1) \div bs

\* the value of byte number i of the image
ImageByte(i) == i + 1

\* self._f_image.read(n) at position 'pos': the bytes pos .. pos+n-1 that exist
ImageRead(pos, n) ==
    LET m == Min(n, Max(0, image_len - pos))
    IN  [k \in 1..m |-> ImageByte(pos + k - 1)]

\* the bytes of the image from byte 'from' up to, not including, byte 'to'
ImageBytes(from, to) == ImageRead(from, to - from)

\* self._f_dest.write(buf) at position 'pos'
DestWrite(d, pos, buf) ==
    [i \in DOMAIN d |->
        IF i >= pos /\ i < pos + Len(buf) THEN buf[i - pos + 1] ELSE d[i]]

\* the destination is large enough for every write of the model
DestSize == (MaxBlock + 1) * BlockSize + BatchBytes + MaxImageLen

\* ------------------------------------------------------- queue items
EosItem == [tag |-> "eos", start |-> 0, end |-> 0, length |-> 0,
            buf |-> <<>>, err |-> "none", by |-> 0]
ErrorItem(e, p) == [tag |-> "error", start |-> 0, end |-> 0, length |-> 0,
                    buf |-> <<>>, err |-> e, by |-> p]

\* mutant of RangeItem: every batch is said to start at block 0
RangeItemBug(start, end, length, buf, p) ==
    [tag |-> "range", start |-> 0, end |-> length - 1, length |-> length,
     buf |-> buf, err |-> "none", by |-> p]

\* ("range", start, end, length, buf)
RangeItem(start, end, length, buf, p) ==
    [tag |-> "range", start |-> start, end |-> end, length |-> length,
     buf |-> buf, err |-> "none", by |-> p]

\* ------------------------------------------------------ reader thread
IdleProd == [pc |-> "unstarted", verify |-> FALSE, rmode |-> "new",
             rnext |-> 0, first |-> 0, last |-> 0, sha1 |-> None,
             hash |-> 0, gfirst |-> 0, gtail |-> FALSE,
             pend |-> EosItem, last_put |-> "none", exc |-> "none"]

NewProd(v) == [IdleProd EXCEPT !.pc = "range", !.verify = v]

\* _get_block_ranges: what the generator does when it is asked for the next
\* range.  rmode is the branch the generator took when it was first run,
\* rnext its position (index of the last <Range> read, or 'first').
GetBlockRanges(p) ==
    LET mode == IF p.rmode # "new" THEN p.rmode
                ELSE IF ~f_bmap
                     THEN (IF ~Falsy(blocks_cnt) THEN "single" ELSE "endless")
                     ELSE "bmap"
        stop == [kind |-> "stop", first |-> 0, last |-> 0, sha1 |-> None,
                 rmode |-> mode, rnext |-> p.rnext]
    IN  IF mode = "single" THEN
            IF p.rnext = 0
            THEN [kind |-> "yield", first |-> 0, last |-> blocks_cnt - 1,
                  sha1 |-> None, rmode |-> mode, rnext |-> 1]
            ELSE stop
        ELSE IF mode = "endless" THEN
            [kind |-> "yield", first |-> p.rnext,
             last |-> p.rnext + batch_blocks - 1, sha1 |-> None,
             rmode |-> mode, rnext |-> p.rnext + batch_blocks]
        ELSE IF p.rnext >= Len(bmap_ranges) THEN stop
        ELSE LET r == bmap_ranges[p.rnext + 1]
             IN  IF r.first > r.last
                 THEN [stop EXCEPT !.kind = "raise"]
                 ELSE [kind |-> "yield", first |-> r.first, last |-> r.last,
                       sha1 |-> r.sha1, rmode |-> mode, rnext |-> p.rnext + 1]

\* mutant of FullBatchFits: a full batch is yielded whenever blocks are left
FullBatchFitsBug(first, last) == first <= last

\* _get_batches: the loop condition 'first + batch_blocks - 1 <= last'
FullBatchFits(first, last) == first + batch_blocks - 1 <= last

\* _get_batches: what the generator does when it is asked for the next batch
\* of the range that ends at 'last'; 'first' is its loop variable and 'tail'
\* says that the loop is over and the last, shorter batch has been yielded.
GetBatches(first, last, tail) ==
    LET rest == last - first + 1
    IN  IF ~tail /\ FullBatchFits(first, last)
        THEN [kind |-> "yield", start |-> first,
              end |-> first + batch_blocks - 1, length |-> batch_blocks,
              gfirst |-> first + batch_blocks, gtail |-> FALSE]
        ELSE IF ~tail /\ rest # 0
        THEN [kind |-> "yield", start |-> first, end |-> first + rest - 1,
              length |-> rest, gfirst |-> first, gtail |-> TRUE]
        ELSE [kind |-> "stop", start |-> 0, end |-> 0, length |-> 0,
              gfirst |-> first, gtail |-> TRUE]

\* mutant of ChecksumFails: the checksum is compared whatever 'verify' says
ChecksumFailsBug(v, sha1, digest) == sha1 # None /\ digest # sha1

\* _get_data: the checksum test at the end of a range
ChecksumFails(v, sha1, digest) == v /\ sha1 # None /\ digest # sha1

\* _get_data, 'for (first, last, sha1) in self._get_block_ranges()':
\* take the next range and seek the image to its first block
ReaderNextRange(p) ==
    /\ prod[p].pc = "range"
    /\ LET s == GetBlockRanges(prod[p])
       IN  IF s.kind = "yield" THEN
               /\ prod' = [prod EXCEPT ![p] =
                     [@ EXCEPT !.pc = "batch", !.rmode = s.rmode,
                               !.rnext = s.rnext, !.first = s.first,
                               !.last = s.last, !.sha1 = s.sha1,
                               !.hash = HashNew, !.gfirst = s.first,
                               !.gtail = FALSE]]
               /\ image_pos' = s.first * block_size
           ELSE IF s.kind = "raise" THEN
               /\ prod' = [prod EXCEPT ![p] =
                     [@ EXCEPT !.pc = "except", !.rmode = s.rmode,
                               !.exc = "RangeError",
                               !.pend = ErrorItem("RangeError", p)]]
               /\ UNCHANGED image_pos
           ELSE
               /\ prod' = [prod EXCEPT ![p] =
                     [@ EXCEPT !.pc = "final", !.rmode = s.rmode,
                               !.pend = EosItem]]
               /\ UNCHANGED image_pos
    /\ UNCHANGED <<sessVars, sizeVars, dest, dest_pos, cpc, verify, saved_pos,
                   batch_queue, blocks_written, fsync_last, result, bdevVars,
                   histVars>>

\* _get_data, 'for (start, end, length) in iterator': read one batch
ReaderRead(p) ==
    /\ prod[p].pc = "batch"
    /\ LET b == GetBatches(prod[p].gfirst, prod[p].last, prod[p].gtail)
           buf == ImageRead(image_pos, b.length * block_size)
           length == BlocksOf(Len(buf), block_size)
       IN  /\ b.kind = "yield"
           /\ image_pos' = image_pos + Len(buf)
           /\ total_read' = total_read + Len(buf)
           /\ read_log' = IF buf = <<>> THEN read_log
                          ELSE Append(read_log, [start |-> b.start, buf |-> buf])
           /\ IF buf = <<>> THEN
                  \* 'if not buf': put(None) and return
                  prod' = [prod EXCEPT ![p] =
                     [@ EXCEPT !.pc = "eos", !.gfirst = b.gfirst,
                               !.gtail = b.gtail, !.pend = EosItem]]
              ELSE
                  prod' = [prod EXCEPT ![p] =
                     [@ EXCEPT !.pc = "put", !.gfirst = b.gfirst,
                               !.gtail = b.gtail,
                               !.hash = HashUpdate(@, buf),
                               !.pend = RangeItem(b.start,
                                                  b.start + length - 1,
                                                  length, buf, p)]]
    /\ UNCHANGED <<sessVars, sizeVars, dest, dest_pos, cpc, verify, saved_pos,
                   batch_queue, blocks_written, fsync_last, result, bdevVars,
                   synced, write_log, first_call, pre_pos, batches>>

\* _get_data: self._f_image.read() raises IOError, which becomes an Error
ReaderReadFails(p) ==
    /\ prod[p].pc = "batch"
    /\ GetBatches(prod[p].gfirst, prod[p].last, prod[p].gtail).kind = "yield"
    /\ prod' = [prod EXCEPT ![p] =
          [@ EXCEPT !.pc = "except", !.exc = "IOReadError",
                    !.pend = ErrorItem("IOReadError", p)]]
    /\ UNCHANGED <<sessVars, sizeVars, fileVars, cpc, verify, saved_pos,
                   batch_queue, blocks_written, fsync_last, result, bdevVars,
                   histVars>>

\* _get_data: the batches of the range are over, compare the checksums
ReaderEndRange(p) ==
    /\ prod[p].pc = "batch"
    /\ GetBatches(prod[p].gfirst, prod[p].last, prod[p].gtail).kind = "stop"
    /\ IF ChecksumFails(prod[p].verify, prod[p].sha1, prod[p].hash)
       THEN prod' = [prod EXCEPT ![p] =
               [@ EXCEPT !.pc = "except", !.gtail = TRUE,
                         !.exc = "ChecksumMismatch",
                         !.pend = ErrorItem("ChecksumMismatch", p)]]
       ELSE prod' = [prod EXCEPT ![p] =
               [@ EXCEPT !.pc = "range", !.gtail = TRUE]]
    /\ UNCHANGED <<sessVars, sizeVars, fileVars, cpc, verify, saved_pos,
                   batch_queue, blocks_written, fsync_last, result, bdevVars,
                   histVars>>

\* mutant of AfterPut: the thread ends after the error record, with no
\* put(None)
AfterPutBug(pc) == IF pc = "put" THEN "batch" ELSE "done"

\* Where the reader thread goes after a put: a batch is followed by the next
\* read, the error record by the final put(None), put(None) by the thread's end
AfterPut(pc) == IF pc = "put" THEN "batch"
                ELSE IF pc = "except" THEN "final"
                ELSE "done"

\* mutant of QueuePut: the item goes to the head of the queue
QueuePutBug(q, item) == <<item>> \o q

\* Queue.Queue is first in, first out: put() adds at the tail, get() takes
\* the head
QueuePut(q, item) == Append(q, item)

\* mutant of QueueFull: the queue has no bound
QueueFullBug(q) == FALSE

\* Queue.Queue(self._batch_queue_len): the queue holds at most that many items
QueueFull(q) == Len(q) >= batch_queue_len

\* self._batch_queue.put(item): blocks while the queue is full
ReaderPut(p) ==
    /\ prod[p].pc \in {"put", "eos", "except", "final"}
    /\ ~QueueFull(batch_queue)
    /\ batch_queue' = QueuePut(batch_queue, [prod[p].pend EXCEPT !.by = p])
    /\ prod' = [prod EXCEPT ![p] =
          [@ EXCEPT !.pc = AfterPut(@), !.pend = EosItem,
                    !.last_put = prod[p].pend.tag]]
    /\ UNCHANGED <<sessVars, sizeVars, fileVars, cpc, verify, saved_pos,
                   blocks_written, fsync_last, result, bdevVars, histVars>>

\* ------------------------------------------------------------- copy()
\* _initialize_sizes(image_size)
InitializeSizes(size) ==
    [image_size |-> size,
     blocks_cnt |-> BlocksOf(size, block_size),
     mapped_cnt |-> BlocksOf(size, block_size)]

\* copy() ends: it returns (res = "ok") or raises res.  In BmapBdevCopy.copy
\* an exception goes through the 'except:' clause first.
EndCopy(res) ==
    /\ result' = res
    /\ cpc' = IF is_bdev /\ res # "ok" THEN "except" ELSE "done"

\* mutant of SavedPositions: the files are rewound after the copy
SavedPositionsBug == [image |-> 0, dest |-> 0]

\* copy(): image_pos = self._f_image.tell(), dest_pos = self._f_dest.tell()
SavedPositions == [image |-> image_pos, dest |-> dest_pos]

\* copy(), up to the loop: save the positions, make the queue, start the
\* reader thread
\* Readers of earlier calls that may already be waiting inside put() of the
\* queue object that copy() is about to replace: a reader that has entered
\* put() on a full queue waits on that object, which nobody reads any more;
\* one that has not entered it yet will evaluate self._batch_queue afresh.
InsideFullPut(p) ==
    {q \in ProdIds : /\ q < p
                     /\ prod[q].pc \in {"put", "eos", "except", "final"}
                     /\ Len(batch_queue) >= batch_queue_len}

CopyStart(p, v) ==
    /\ cpc = IF is_bdev THEN "tuned" ELSE "idle"
    /\ prod[p].pc = "unstarted"
    /\ \A q \in ProdIds : q < p => prod[q].pc # "unstarted"
    /\ saved_pos' = SavedPositions
    /\ batch_queue' = <<>>
    /\ \E inside \in SUBSET InsideFullPut(p) :
           prod' = [q \in ProdIds |->
                       IF q = p THEN NewProd(v)
                       ELSE IF q \in inside
                            THEN [prod[q] EXCEPT !.pc = "stuck"]
                            ELSE prod[q]]
    /\ verify' = v
    /\ blocks_written' = 0
    /\ fsync_last' = 0
    /\ result' = "none"
    /\ cpc' = "get"
    /\ pre_pos' = [image |-> image_pos, dest |-> dest_pos]
    /\ UNCHANGED <<sessVars, sizeVars, fileVars, bdevVars, total_read, synced,
                   read_log, write_log, first_call, batches>>

\* the loop of copy(): batch = self._batch_queue.get() is None
ConsumerGetEos ==
    /\ cpc = "get"
    /\ batch_queue # <<>>
    /\ Head(batch_queue).tag = "eos"
    /\ batch_queue' = Tail(batch_queue)
    /\ cpc' = "post"
    /\ UNCHANGED <<sessVars, sizeVars, fileVars, verify, saved_pos,
                   blocks_written, fsync_last, result, prod, bdevVars,
                   histVars>>

\* mutant of Reraise: a new Error is raised in place of the carried one
ReraiseBug(batch) == "Error"

\* copy(): 'raise exc_info[0], exc_info[1], exc_info[2]'
Reraise(batch) == batch.err

\* mutant of ConsumerGetError: the consumer looks for an error record in the
\* whole queue and raises it before the batches that wait in front of it
ConsumerGetErrorBug ==
    /\ cpc = "get"
    /\ \E k \in 1..Len(batch_queue) :
           /\ batch_queue[k].tag = "error"
           /\ EndCopy(Reraise(batch_queue[k]))
    /\ batch_queue' = <<>>
    /\ UNCHANGED <<sessVars, sizeVars, fileVars, verify, saved_pos,
                   blocks_written, fsync_last, prod, bdevVars, histVars>>

\* the loop of copy(): the batch is an error record, raise what it carries
ConsumerGetError ==
    /\ cpc = "get"
    /\ batch_queue # <<>>
    /\ Head(batch_queue).tag = "error"
    /\ batch_queue' = Tail(batch_queue)
    /\ EndCopy(Reraise(Head(batch_queue)))
    /\ UNCHANGED <<sessVars, sizeVars, fileVars, verify, saved_pos,
                   blocks_written, fsync_last, prod, bdevVars, histVars>>

\* copy(): 'assert len(buf) <= length * self.block_size'
AssertBuf(batch) == Len(batch.buf) <= batch.length * block_size

\* mutant of WatermarkReached: the watermark has to be exceeded
WatermarkReachedBug ==
    /\ ~Falsy(dest_fsync_watermark)
    /\ blocks_written > fsync_last + dest_fsync_watermark

\* copy(): 'if self._dest_fsync_watermark: if blocks_written >= fsync_last +
\* self._dest_fsync_watermark'
WatermarkReached ==
    /\ ~Falsy(dest_fsync_watermark)
    /\ blocks_written >= fsync_last + dest_fsync_watermark

\* mutant of WritePos: the batch is written where it ends
WritePosBug(batch) == batch.end * block_size

\* copy(): where the batch is written, self._f_dest.seek(start * block_size)
WritePos(batch) == batch.start * block_size

\* the loop of copy(): one data batch: seek, sync at the watermark, write.
\* sync_ok and write_ok say whether os.fsync and write succeed.
ConsumerWrite(sync_ok, write_ok) ==
    /\ cpc = "get"
    /\ batch_queue # <<>>
    /\ Head(batch_queue).tag = "range"
    /\ LET batch == Head(batch_queue)
       IN  /\ batch_queue' = Tail(batch_queue)
           /\ IF ~AssertBuf(batch) THEN
                  /\ EndCopy("AssertionError")
                  /\ UNCHANGED <<dest, dest_pos, blocks_written, fsync_last,
                                 synced, write_log>>
              ELSE IF WatermarkReached /\ ~sync_ok THEN
                  /\ EndCopy("SyncError")
                  /\ dest_pos' = WritePos(batch)
                  /\ fsync_last' = blocks_written
                  /\ UNCHANGED <<dest, blocks_written, synced, write_log>>
              ELSE
                  /\ fsync_last' = IF WatermarkReached THEN blocks_written
                                   ELSE fsync_last
                  /\ synced' = IF WatermarkReached THEN synced + 1 ELSE synced
                  /\ IF ~write_ok THEN
                         /\ EndCopy("IOWriteError")
                         /\ dest_pos' = WritePos(batch)
                         /\ UNCHANGED <<dest, blocks_written, write_log>>
                     ELSE
                         /\ dest' = DestWrite(dest, WritePos(batch), batch.buf)
                         /\ dest_pos' = WritePos(batch) + Len(batch.buf)
                         /\ blocks_written' = blocks_written + batch.length
                         /\ write_log' =
                               Append(write_log, [start |-> batch.start,
                                                  buf |-> batch.buf])
                         /\ UNCHANGED <<cpc, result>>
    /\ UNCHANGED <<sessVars, sizeVars, image_pos, verify, saved_pos, prod,
                   bdevVars, total_read, read_log, first_call, pre_pos,
                   batches>>

\* mutant of WrongBlockCount: only too many blocks are an error
WrongBlockCountBug(written, mapped) == written > mapped

\* copy(): the sanity check 'if blocks_written != self.mapped_cnt'
WrongBlockCount(written, mapped) == written # mapped

\* copy(), after the loop: set the sizes if they were unknown, check the
\* number of blocks written, flush, sync if asked to, restore the positions.
\* do_sync is the 'sync' argument of copy(), which is read only here.
ConsumerFinish(do_sync, flush_ok, sync_ok) ==
    /\ cpc = "post"
    /\ LET sz == IF Falsy(image_size)
                 THEN InitializeSizes(blocks_written * block_size)
                 ELSE [image_size |-> image_size, blocks_cnt |-> blocks_cnt,
                       mapped_cnt |-> mapped_cnt]
       IN  /\ image_size' = sz.image_size
           /\ blocks_cnt' = sz.blocks_cnt
           /\ mapped_cnt' = sz.mapped_cnt
           /\ IF WrongBlockCount(blocks_written, sz.mapped_cnt) THEN
                  /\ EndCopy("SizeMismatch")
                  /\ UNCHANGED <<image_pos, dest_pos, synced>>
              ELSE IF ~flush_ok THEN
                  /\ EndCopy("FlushError")
                  /\ UNCHANGED <<image_pos, dest_pos, synced>>
              ELSE IF do_sync /\ ~sync_ok THEN
                  /\ EndCopy("SyncError")
                  /\ UNCHANGED <<image_pos, dest_pos, synced>>
              ELSE
                  /\ EndCopy("ok")
                  /\ synced' = IF do_sync THEN synced + 1 ELSE synced
                  /\ image_pos' = saved_pos.image
                  /\ dest_pos' = saved_pos.dest
    /\ UNCHANGED <<sessVars, dest, verify, saved_pos, batch_queue,
                   blocks_written, fsync_last, prod, bdevVars, total_read,
                   read_log, write_log, first_call, pre_pos, batches>>

\* ------------------------------------------------------ the sessions
BmapRange == [first : 0..MaxBlock, last : 0..MaxBlock,
              sha1 : {None} \cup (0..(HashMod - 1))]

\* the bmaps of the model have no, one or two ranges
BmapRangeSeqs ==
    {<<>>} \cup {<<a>> : a \in BmapRange}
           \cup {<<a, b>> : a \in BmapRange, b \in BmapRange}

\* BmapCopy.__init__ with a bmap: _parse_bmap.  BlocksCount is not 0, as
\* computing mapped_percent divides by it.
InitWithBmap ==
    /\ image_len \in 0..MaxImageLen
    /\ f_bmap = TRUE
    /\ compressed = FALSE
    /\ bmap_ranges \in BmapRangeSeqs
    /\ block_size = BlockSize
    /\ blocks_cnt = MaxBlock + 1
    /\ mapped_cnt \in 0..MaxMapped
    /\ image_size = blocks_cnt * block_size

\* BmapCopy.__init__ without a bmap: the sizes are known only if the image
\* is not compressed
InitWithoutBmap ==
    /\ image_len \in 0..MaxImageLen
    /\ f_bmap = FALSE
    /\ compressed \in BOOLEAN
    /\ bmap_ranges = <<>>
    /\ block_size = BlockSize
    /\ IF compressed
       THEN blocks_cnt = None /\ mapped_cnt = None /\ image_size = None
       ELSE /\ image_size = InitializeSizes(image_len).image_size
            /\ blocks_cnt = InitializeSizes(image_len).blocks_cnt
            /\ mapped_cnt = InitializeSizes(image_len).mapped_cnt

\* _get_batches has not been called on its own
NoBatches == [called |-> FALSE, first |-> 0, last |-> 0, gfirst |-> 0,
              gtail |-> FALSE, done |-> FALSE, out |-> <<>>]

\* no copy() call has ended yet
NoCall == [ended |-> FALSE, result |-> "none", verify |-> FALSE,
           writes |-> <<>>]

\* the rest of BmapCopy.__init__, and the destination as it is given to it
InitCommon ==
    /\ batch_blocks = BatchBytes \div block_size
    /\ dest = [i \in 0..(DestSize - 1) |-> 0]
    /\ verify = FALSE
    /\ saved_pos = [image |-> 0, dest |-> 0]
    /\ batch_queue = <<>>
    /\ blocks_written = 0
    /\ fsync_last = 0
    /\ result = "none"
    /\ prod = [p \in ProdIds |-> IdleProd]
    /\ total_read = 0
    /\ synced = 0
    /\ read_log = <<>>
    /\ write_log = <<>>
    /\ restore_log = <<>>
    /\ old_scheduler_value = "None"
    /\ old_max_ratio_value = "None"
    /\ first_call = NoCall
    /\ pre_pos = [image |-> 0, dest |-> 0]
    /\ batches = NoBatches

\* the image and the destination were opened by the constructor, from their
\* paths: both are at their start
InitAtStart == image_pos = 0 /\ dest_pos = 0

\* a BmapCopy session, just constructed
Init ==
    /\ InitWithBmap \/ InitWithoutBmap
    /\ InitCommon
    /\ InitAtStart
    /\ is_bdev = FALSE
    /\ bdev_size = DestSize
    /\ cpc = "idle"
    /\ batch_queue_len = QueueLen
    /\ dest_fsync_watermark = None
    /\ sysfs_scheduler = "cfq"
    /\ sysfs_max_ratio = "100"
    /\ scheduler_access = "absent"
    /\ max_ratio_access = "absent"

ReaderStep(p) ==
    \/ ReaderNextRange(p)
    \/ ReaderRead(p)
    \/ ReaderReadFails(p)
    \/ ReaderEndRange(p)
    \/ ReaderPut(p)

ConsumerStep ==
    \/ ConsumerGetEos
    \/ ConsumerGetError
    \/ \E sync_ok, write_ok \in BOOLEAN : ConsumerWrite(sync_ok, write_ok)
    \/ \E do_sync, flush_ok, sync_ok \in BOOLEAN :
          ConsumerFinish(do_sync, flush_ok, sync_ok)

\* the first copy() call of a BmapCopy session
Next ==
    \/ \E v \in BOOLEAN : CopyStart(1, v)
    \/ ReaderStep(1)
    \/ ConsumerStep

Spec == Init /\ [][Next]_vars

\* ------------------------------------------------------ BmapBdevCopy
Schedulers == {"cfq", "noop"}

\* How a sysfs file answers _tune_block_device: "rw" it is read and written,
\* "wfail" it is read but the write fails, "absent" it cannot be opened.
\* Anything but "rw" ends in IOError.
Access == {"rw", "wfail", "absent"}

\* _tune_block_device.  A scheduler file without a bracketed name ("none")
\* makes re.match return None, and match.group(1) raises AttributeError.
TuneBlockDevice ==
    IF scheduler_access # "rw" THEN
        \* 'except IOError: return'
        [raised |-> FALSE, scheduler |-> sysfs_scheduler,
         max_ratio |-> sysfs_max_ratio, old_scheduler |-> old_scheduler_value,
         old_max_ratio |-> old_max_ratio_value]
    ELSE IF sysfs_scheduler \notin Schedulers THEN
        [raised |-> TRUE, scheduler |-> "noop",
         max_ratio |-> sysfs_max_ratio, old_scheduler |-> old_scheduler_value,
         old_max_ratio |-> old_max_ratio_value]
    ELSE IF max_ratio_access = "absent" THEN
        [raised |-> FALSE, scheduler |-> "noop",
         max_ratio |-> sysfs_max_ratio, old_scheduler |-> sysfs_scheduler,
         old_max_ratio |-> old_max_ratio_value]
    ELSE
        [raised |-> FALSE, scheduler |-> "noop",
         max_ratio |-> IF max_ratio_access = "rw" THEN "1"
                       ELSE sysfs_max_ratio,
         old_scheduler |-> sysfs_scheduler,
         old_max_ratio |-> sysfs_max_ratio]

\* BmapBdevCopy.copy: 'try: self._tune_block_device()'
BdevTune ==
    /\ is_bdev
    /\ cpc = "idle"
    /\ LET t == TuneBlockDevice
       IN  /\ sysfs_scheduler' = t.scheduler
           /\ sysfs_max_ratio' = t.max_ratio
           /\ old_scheduler_value' = t.old_scheduler
           /\ old_max_ratio_value' = t.old_max_ratio
           /\ cpc' = IF t.raised THEN "except" ELSE "tuned"
           /\ result' = IF t.raised THEN "AttributeError" ELSE "none"
    /\ UNCHANGED <<sessVars, sizeVars, fileVars, verify, saved_pos,
                   batch_queue, blocks_written, fsync_last, prod, restore_log,
                   histVars>>

\* _restore_bdev_settings.  The arguments say whether writing each sysfs file
\* succeeds now (the device may have changed or gone since it was tuned).  'log' lists the settings whose restoration was attempted.
RestoreBdevSettings(sched_ok, ratio_ok) ==
    LET try_sched == old_scheduler_value # "None"
        gave_up == try_sched /\ ~sched_ok      \* 'except IOError: return'
        try_ratio == ~gave_up /\ old_max_ratio_value # "None"
    IN  [scheduler |-> IF try_sched /\ sched_ok THEN old_scheduler_value
                       ELSE sysfs_scheduler,
         max_ratio |-> IF try_ratio /\ ratio_ok THEN old_max_ratio_value
                       ELSE sysfs_max_ratio,
         log |-> (IF try_sched THEN <<"scheduler">> ELSE <<>>) \o
                 (IF try_ratio THEN <<"max_ratio">> ELSE <<>>)]

\* BmapBdevCopy.copy: 'except: self._restore_bdev_settings(); raise'
BdevExcept(sched_ok, ratio_ok) ==
    /\ is_bdev
    /\ cpc = "except"
    /\ LET r == RestoreBdevSettings(sched_ok, ratio_ok)
       IN  /\ sysfs_scheduler' = r.scheduler
           /\ sysfs_max_ratio' = r.max_ratio
           /\ restore_log' = restore_log \o r.log
    /\ cpc' = "done"
    /\ UNCHANGED <<sessVars, sizeVars, fileVars, verify, saved_pos,
                   batch_queue, blocks_written, fsync_last, result, prod,
                   old_scheduler_value, old_max_ratio_value, histVars>>

\* capacities of the block devices of the model: one too small for the
\* larger images, one that takes them all
BdevSizes == {BlockSize + 1, DestSize}

\* mutant of CapacityTooSmall: the capacity is not looked at
CapacityTooSmallBug(size, capacity) == FALSE

\* BmapBdevCopy.__init__: 'if self.image_size: ... if bdev_size <
\* self.image_size: raise Error'
CapacityTooSmall(size, capacity) == ~Falsy(size) /\ capacity < size

\* BmapBdevCopy.__init__, after the constructor of the base class: the image
\* must fit the block device, or no session is made
BdevCheckSize ==
    /\ is_bdev
    /\ cpc = "init"
    /\ IF CapacityTooSmall(image_size, bdev_size)
       THEN cpc' = "failed" /\ result' = "CapacityError"
       ELSE cpc' = "idle" /\ UNCHANGED result
    /\ UNCHANGED <<sessVars, sizeVars, fileVars, verify, saved_pos,
                   batch_queue, blocks_written, fsync_last, prod, bdevVars,
                   histVars>>

\* a BmapBdevCopy session without a bmap, when the constructor of the base
\* class has run
InitBdev ==
    /\ InitWithoutBmap
    /\ InitCommon
    /\ InitAtStart
    /\ is_bdev = TRUE
    /\ bdev_size \in BdevSizes
    /\ cpc = "init"
    /\ batch_queue_len = BdevQueueLen
    /\ dest_fsync_watermark = WatermarkBytes \div block_size
    /\ sysfs_scheduler \in Schedulers \cup {"none"}
    /\ sysfs_max_ratio = "100"
    /\ scheduler_access \in Access
    /\ max_ratio_access \in Access

\* the first copy() call of a BmapBdevCopy session
NextBdev ==
    \/ BdevCheckSize
    \/ BdevTune
    \/ \E v \in BOOLEAN : CopyStart(1, v)
    \/ ReaderStep(1)
    \/ ConsumerStep
    \/ \E a, b \in BOOLEAN : BdevExcept(a, b)

SpecBdev == InitBdev /\ [][NextBdev]_vars

\* The sessions of Init whose bmap has at most one range
InitLive == Init /\ Len(bmap_ranges) <= 1

\* Both threads keep running: the scheduler of the threads is fair
FairSpec ==
    InitLive /\ [][Next]_vars /\ WF_vars(ReaderStep(1)) /\ WF_vars(ConsumerStep)

\* ------------------------------------------------ a second copy() call
\* copy() has returned and the caller gets ready to call it again on the
\* same session; what the call wrote is kept in first_call
CopyAgain ==
    /\ ~is_bdev
    /\ cpc = "done"
    /\ result = "ok"
    /\ prod[2].pc = "unstarted"
    /\ cpc' = "idle"
    /\ first_call' = [ended |-> TRUE, result |-> result, verify |-> verify,
                      writes |-> write_log]
    /\ read_log' = <<>>
    /\ write_log' = <<>>
    /\ UNCHANGED <<sessVars, sizeVars, fileVars, verify, saved_pos,
                   batch_queue, blocks_written, fsync_last, result, prod,
                   bdevVars, total_read, synced, pre_pos, batches>>

\* File objects given to the constructor are where the caller left them
FilePositions == {0, 1}

\* a BmapCopy session on file objects; the bmap has at most one range
InitAgain ==
    /\ InitWithBmap \/ InitWithoutBmap
    /\ Len(bmap_ranges) <= 1
    /\ InitCommon
    /\ image_pos \in FilePositions
    /\ dest_pos \in FilePositions
    /\ is_bdev = FALSE
    /\ bdev_size = DestSize
    /\ cpc = "idle"
    /\ batch_queue_len = QueueLen
    /\ dest_fsync_watermark = None
    /\ sysfs_scheduler = "cfq"
    /\ sysfs_max_ratio = "100"
    /\ scheduler_access = "absent"
    /\ max_ratio_access = "absent"

\* two copy() calls of a BmapCopy session, the second after the first has
\* returned
NextAgain ==
    \/ \E v \in BOOLEAN : CopyStart(1, v)
    \/ ReaderStep(1)
    \/ ConsumerStep
    \/ CopyAgain
    \/ \E v \in BOOLEAN : CopyStart(2, v)
    \/ ReaderStep(2)

SpecAgain == InitAgain /\ [][NextAgain]_vars

\* copy() has raised and the caller calls it again on the same session: the
\* reader thread of the call that raised is wherever that call left it
CopyRetry ==
    /\ ~is_bdev
    /\ cpc = "done"
    /\ result # "ok"
    /\ prod[2].pc = "unstarted"
    /\ cpc' = "idle"
    /\ first_call' = [ended |-> TRUE, result |-> result, verify |-> verify,
                      writes |-> write_log]
    /\ read_log' = <<>>
    /\ write_log' = <<>>
    /\ UNCHANGED <<sessVars, sizeVars, fileVars, verify, saved_pos,
                   batch_queue, blocks_written, fsync_last, result, prod,
                   bdevVars, total_read, synced, pre_pos, batches>>

NextRetry ==
    \/ \E v \in BOOLEAN : CopyStart(1, v)
    \/ ReaderStep(1)
    \/ ConsumerStep
    \/ CopyRetry
    \/ \E v \in BOOLEAN : CopyStart(2, v)
    \/ ReaderStep(2)

SpecRetry == InitLive /\ [][NextRetry]_vars

\* the first copy() call of a session of either class (the sessions of
\* BmapCopy with a bmap of at most one range)
InitAny == InitLive \/ InitBdev

SpecAny == InitAny /\ [][NextBdev]_vars

\* ------------------------------------------------ _get_batches, alone
\* the number of batches after which a run of _get_batches is left alone
MaxYield == MaxLast + 3

\* a session with a bmap of any block size; nothing is copied
InitBatches ==
    /\ image_len = 0
    /\ f_bmap = TRUE
    /\ compressed = FALSE
    /\ bmap_ranges = <<>>
    /\ block_size \in 1..MaxBlockSize
    /\ blocks_cnt = MaxLast + 1
    /\ mapped_cnt = 0
    /\ image_size = blocks_cnt * block_size
    /\ InitCommon
    /\ InitAtStart
    /\ is_bdev = FALSE
    /\ bdev_size = DestSize
    /\ cpc = "idle"
    /\ batch_queue_len = QueueLen
    /\ dest_fsync_watermark = None
    /\ sysfs_scheduler = "cfq"
    /\ sysfs_max_ratio = "100"
    /\ scheduler_access = "absent"
    /\ max_ratio_access = "absent"

\* iterator = self._get_batches(first, last)
BatchesCall(first, last) ==
    /\ ~batches.called
    /\ batches' = [NoBatches EXCEPT !.called = TRUE, !.first = first,
                                    !.last = last, !.gfirst = first]
    /\ UNCHANGED <<sessVars, sizeVars, fileVars, callVars, bdevVars,
                   total_read, synced, read_log, write_log, first_call,
                   pre_pos>>

\* the next batch is asked of the iterator
BatchesNext ==
    /\ batches.called
    /\ ~batches.done
    /\ Len(batches.out) < MaxYield
    /\ LET b == GetBatches(batches.gfirst, batches.last, batches.gtail)
       IN  batches' =
             IF b.kind = "yield"
             THEN [batches EXCEPT !.gfirst = b.gfirst, !.gtail = b.gtail,
                     !.out = Append(@, [start |-> b.start, end |-> b.end,
                                        length |-> b.length])]
             ELSE [batches EXCEPT !.done = TRUE]
    /\ UNCHANGED <<sessVars, sizeVars, fileVars, callVars, bdevVars,
                   total_read, synced, read_log, write_log, first_call,
                   pre_pos>>

NextBatches ==
    \/ \E first, last \in 0..MaxLast : first <= last /\ BatchesCall(first, last)
    \/ BatchesNext

SpecBatches == InitBatches /\ [][NextBatches]_vars

\* ========================================================= properties
BmapRangeSet == {bmap_ranges[k] : k \in 1..Len(bmap_ranges)}
InSomeRange(b) == \E r \in BmapRangeSet : r.first <= b /\ b <= r.last
BlockOf(i) == i \div block_size
CopyEnded == cpc = "done"
CopyReturned == cpc = "done" /\ result = "ok"
CopyRaised == cpc = "done" /\ result # "ok"
IOErrors == {"IOReadError", "IOWriteError", "SyncError", "FlushError"}

\* every range of the bmap is well formed and its last block is in the image
RangesInsideImage ==
    \A r \in BmapRangeSet : r.first <= r.last /\ r.last * block_size < image_len

\* the number of blocks of the ranges of a bmap
RECURSIVE BlocksInRanges(_)
BlocksInRanges(rs) ==
    IF rs = <<>> THEN 0
    ELSE (Head(rs).last - Head(rs).first + 1) + BlocksInRanges(Tail(rs))

\* the bmap's MappedBlocksCount is the number of blocks of its ranges, and
\* every range is well formed
MappedCountRight ==
    /\ \A r \in BmapRangeSet : r.first <= r.last
    /\ mapped_cnt = BlocksInRanges(bmap_ranges)

\* every byte of the image that lies in a block of a bmap range is in the
\* destination, at the same offset
MappedDataCopied ==
    \A i \in 0..(image_len - 1) :
        InSomeRange(BlockOf(i)) => dest[i] = ImageByte(i)

\* C1 as stated: in a session with a bmap, when copy() has returned without
\* error, every block of a bmap range holds the bytes of the same block of
\* the image.
C1_Original == (f_bmap /\ CopyReturned) => MappedDataCopied

\* C1, amended: the same, for bmaps whose ranges lie inside the image or
\* whose MappedBlocksCount is the number of blocks of its ranges (the reader
\* ends the copy at the first read that returns nothing, the ranges it has
\* not reached are not copied, and only the count of blocks tells).
C1_DataCopied ==
    (f_bmap /\ CopyReturned /\ (RangesInsideImage \/ MappedCountRight)) =>
        MappedDataCopied

\* a copy of two ranges, three blocks, the last block short in the image
C1_Witness ==
    /\ f_bmap /\ CopyReturned /\ RangesInsideImage
    /\ Len(bmap_ranges) = 2
    /\ blocks_written = 3
    /\ image_len % block_size # 0
    /\ InSomeRange(BlockOf(image_len - 1))
    /\ dest[image_len - 1] = ImageByte(image_len - 1)

\* C2: in a session with a bmap, in every state, a destination byte of a
\* block that is in no bmap range holds what it held before the copy (0).
C2_OnlyRangesWritten ==
    f_bmap => \A i \in DOMAIN dest : ~InSomeRange(BlockOf(i)) => dest[i] = 0

\* a finished copy that wrote something and left alone a block which the
\* image has and which no range maps
C2_Witness ==
    /\ f_bmap /\ CopyReturned
    /\ \E i \in DOMAIN dest : dest[i] # 0
    /\ \E j \in 0..(image_len - 1) : ~InSomeRange(BlockOf(j)) /\ dest[j] = 0

\* the range declares a checksum which is not the digest of its bytes in the
\* image
RangeMismatch(r) ==
    /\ r.sha1 # None
    /\ SHA1(ImageBytes(r.first * block_size, (r.last + 1) * block_size)) # r.sha1
SomeMismatch == \E r \in BmapRangeSet : RangeMismatch(r)

\* C3 as stated (leaving aside the copies that end in an I/O error or a bad
\* range): copy() fails with ChecksumMismatch exactly when verify is true and
\* some range declares a checksum which its bytes in the image do not have.
C3_Original ==
    (f_bmap /\ CopyEnded /\ result \notin IOErrors \cup {"RangeError"}) =>
        (result = "ChecksumMismatch" <=> (verify /\ SomeMismatch))

\* C3, amended: ChecksumMismatch is raised only when verify is true and some
\* declared checksum differs; when the ranges lie inside the image and no I/O
\* fails it is raised exactly then, and otherwise copy() returns with
\* blocks_written = mapped_cnt if the bmap's MappedBlocksCount is the number of
\* blocks of its ranges.
C3_Checksum ==
    (f_bmap /\ CopyEnded) =>
        /\ result = "ChecksumMismatch" => (verify /\ SomeMismatch)
        /\ (RangesInsideImage /\ result \notin IOErrors) =>
              /\ result = "ChecksumMismatch" <=> (verify /\ SomeMismatch)
              /\ (result # "ChecksumMismatch" /\ MappedCountRight) =>
                     (result = "ok" /\ blocks_written = mapped_cnt)

\* the first range has the checksum it declares, the second has not
C3_Witness ==
    /\ f_bmap /\ CopyEnded /\ RangesInsideImage
    /\ result = "ChecksumMismatch"
    /\ Len(bmap_ranges) = 2
    /\ bmap_ranges[1].sha1 # None
    /\ ~RangeMismatch(bmap_ranges[1])
    /\ blocks_written > 0

\* C4: in a session with a bmap, copy() never returns with blocks_written
\* different from MappedBlocksCount, and when the loop has ended on the
\* end-of-stream marker with a different count, copy() raises SizeMismatch.
C4_SizeChecked ==
    /\ []((f_bmap /\ CopyReturned) => blocks_written = mapped_cnt)
    /\ [][(f_bmap /\ cpc = "post" /\ blocks_written # mapped_cnt
             /\ cpc' # "post") => result' = "SizeMismatch"]_vars

\* a copy that wrote blocks and ended in SizeMismatch
C4_Witness ==
    /\ f_bmap /\ CopyEnded
    /\ result = "SizeMismatch"
    /\ blocks_written > 0
    /\ blocks_written < mapped_cnt

\* C5: without a bmap and with an image of unknown size, copy() ends without
\* error when a read returns nothing (no I/O failing), and image_size is then
\* the number of bytes read from the image.
C5_SizeIsBytesRead ==
    (~f_bmap /\ compressed /\ CopyEnded /\ result \notin IOErrors) =>
        (result = "ok" /\ image_size = total_read)

Attempted(setting) == \E k \in 1..Len(restore_log) : restore_log[k] = setting
Attempts(setting) == Cardinality({k \in 1..Len(restore_log) : restore_log[k] = setting})

\* C6: when a copy to a block device has ended, either way, every setting
\* that was saved has its saved value again (or its restoration was tried
\* and failed).
C6_AlwaysRestored ==
    (is_bdev /\ CopyEnded) =>
        /\ old_scheduler_value # "None" =>
              (sysfs_scheduler = old_scheduler_value \/ Attempted("scheduler"))
        /\ old_max_ratio_value # "None" =>
              (sysfs_max_ratio = old_max_ratio_value \/ Attempted("max_ratio"))

\* C7: when the restoration has run (copy() raised), it was attempted exactly
\* once for every saved setting, also when restoring the scheduler failed.
C7_EachRestoredOnce ==
    (is_bdev /\ CopyRaised) =>
        /\ old_scheduler_value # "None" => Attempts("scheduler") = 1
        /\ old_max_ratio_value # "None" => Attempts("max_ratio") = 1

\* C8: a tuning file that cannot be read or written does not make copy()
\* fail and skips its own step only: after the tuning, the write buffering
\* ratio is saved and lowered whenever its file can be read and written.
C8_StepsIndependent ==
    /\ (is_bdev /\ cpc # "idle" /\ scheduler_access # "rw") =>
          result # "AttributeError"
    /\ (is_bdev /\ cpc = "tuned" /\ max_ratio_access = "rw") =>
          (old_max_ratio_value = "100" /\ sysfs_max_ratio = "1")

\* the reader thread is in a put() on a full queue
ReaderBlocked(p) ==
    /\ prod[p].pc \in {"put", "eos", "except", "final"}
    /\ Len(batch_queue) >= batch_queue_len

\* C9: when copy() has ended with an error, of the reader or of the consumer,
\* the reader thread ends too: it is not left in a put() on a full queue,
\* which nobody reads any more.  (The claim also excludes a reader thread that
\* still reads the image; the weaker statement is the one checked.)
C9_NoOrphanReader == CopyRaised => ~ReaderBlocked(1)

\* C10: the last item the reader thread puts is the end-of-stream marker,
\* however it ends, and with both threads scheduled fairly every copy() call
\* returns or raises.
C10_Terminates ==
    /\ [](prod[1].pc = "done" => prod[1].last_put = "eos")
    /\ (cpc \in {"get", "post"}) ~> (cpc = "done")

\* the reader thread has ended after an exception and copy() has raised it
C10_Witness ==
    /\ CopyRaised
    /\ result \in {"IOReadError", "ChecksumMismatch"}
    /\ prod[1].pc = "done"
    /\ prod[1].last_put = "eos"

\* what copy() raises when the consumer itself fails
ConsumerErrors == {"IOWriteError", "SyncError"}

\* C11 as stated: when the reader thread has failed and copy() has ended,
\* copy() has raised the error of the reader thread.
C11_Original == (CopyEnded /\ prod[1].exc # "none") => result = prod[1].exc

\* C11, amended: a failure of the reader thread is put in the queue as an
\* error record; copy() never returns normally after it, and raises that same
\* error unless a write or a sync of the consumer failed before the record
\* was taken from the queue; and copy() does end when the reader has failed.
C11_Delivered ==
    /\ []((CopyEnded /\ prod[1].exc # "none") =>
             result \in {prod[1].exc} \cup ConsumerErrors)
    /\ [][(prod[1].pc = "except" /\ prod'[1].pc # "except") =>
             batch_queue' = Append(batch_queue, ErrorItem(prod[1].exc, 1))]_vars
    /\ [][(cpc = "get" /\ batch_queue # <<>> /\ Head(batch_queue).tag = "error"
             /\ cpc' # "get") => result' = Head(batch_queue).err]_vars
    /\ (prod[1].exc # "none") ~> CopyRaised

\* batches of a range were written before its checksum turned out wrong
C11_Witness ==
    /\ CopyRaised
    /\ prod[1].exc = "ChecksumMismatch"
    /\ result = "ChecksumMismatch"
    /\ blocks_written > 0

\* sequence s is a prefix of sequence t
IsPrefix(s, t) == Len(s) <= Len(t) /\ \A k \in 1..Len(s) : s[k] = t[k]

\* C12: in every state the sequence of (start, data) written to the
\* destination is a prefix of the sequence of (start, data) read from the
\* image.
C12_WrittenInReadOrder == IsPrefix(write_log, read_log)

\* two ranges, the second below the end of the first: three batches were
\* read and written, the last one at a lower block than the one before
C12_Witness ==
    /\ cpc = "post"
    /\ Len(write_log) = 3
    /\ write_log = read_log
    /\ write_log[2].start > write_log[3].start

SecondCallEnded == first_call.ended /\ CopyEnded

\* C13: when copy() has returned normally the image and the destination are
\* at the positions they had before the call, and a second copy() with the
\* same 'verify', in which no I/O fails, returns normally too after the same
\* sequence of writes.
C13_Reinvocable ==
    /\ CopyReturned => (image_pos = pre_pos.image /\ dest_pos = pre_pos.dest)
    /\ (SecondCallEnded /\ verify = first_call.verify /\ result \notin IOErrors)
          => (result = "ok" /\ write_log = first_call.writes)

\* both calls have returned, each after two writes, with the files back at
\* the positions the caller had left them at, which are not their starts
C13_Witness ==
    /\ SecondCallEnded
    /\ result = "ok"
    /\ Len(first_call.writes) = 2
    /\ write_log = first_call.writes
    /\ image_pos = 1
    /\ dest_pos = 1

\* C14: for a block device whose capacity is below the size of the image,
\* known when the session is made, the constructor fails with CapacityError
\* and nothing has been written or tuned: no copy() call ever starts.
C14_CapacityChecked ==
    (is_bdev /\ ~compressed /\ bdev_size < image_size) =>
        /\ cpc \in {"init", "failed"}
        /\ cpc = "failed" => result = "CapacityError"
        /\ write_log = <<>>
        /\ \A i \in DOMAIN dest : dest[i] = 0
        /\ prod[1].pc = "unstarted"
        /\ old_scheduler_value = "None" /\ old_max_ratio_value = "None"
        /\ sysfs_max_ratio = "100"

\* the constructor has failed for an image one byte larger than the device
C14_Witness ==
    /\ is_bdev
    /\ cpc = "failed"
    /\ result = "CapacityError"
    /\ image_size = bdev_size + 1

\* C15: the queue of a BmapCopy session is made for 2 items and that of a
\* BmapBdevCopy session for 6, and in no state it holds more: the items the
\* reader is ahead of the consumer by are never more than that.
C15_QueueBounded ==
    /\ batch_queue_len = IF is_bdev THEN 6 ELSE 2
    /\ Len(batch_queue) <= batch_queue_len

\* the queue is full and the reader thread waits to put one more item
C15_Witness ==
    /\ ~is_bdev
    /\ cpc = "get"
    /\ Len(batch_queue) = 2
    /\ prod[1].pc = "final"

\* some range of the bmap has first > last
BadRange == \E r \in BmapRangeSet : r.first > r.last

\* C16: a bmap with a range whose first block is above its last is rejected
\* when the session is made, so nothing is ever written for it, not even for
\* the well formed ranges before the bad one.  (The claim also says that no
\* copy starts; the weaker statement is the one checked.)
C16_BadRangeRejected == (f_bmap /\ BadRange) => write_log = <<>>

\* the batches yielded so far are not empty, have the length they say, follow
\* one another from 'first' on and stay inside the range
BatchesContiguous ==
    LET out == batches.out
    IN  \A k \in 1..Len(out) :
            /\ out[k].length >= 1
            /\ out[k].length = out[k].end - out[k].start + 1
            /\ out[k].length <= batch_blocks
            /\ out[k].start = IF k = 1 THEN batches.first ELSE out[k - 1].end + 1
            /\ out[k].end <= batches.last
            /\ k < Len(out) => out[k].length = batch_blocks

\* the run has ended and its batches reach the end of the range
BatchesComplete ==
    LET out == batches.out
    IN  /\ out # <<>>
        /\ out[Len(out)].end = batches.last
        /\ (batches.last - batches.first + 1 < batch_blocks) => Len(out) = 1

\* C17: for every range with first <= last and every block size, the batches
\* of _get_batches are not empty, contiguous, as long as batch_blocks but for
\* the last, which may be shorter, and they are finitely many and end at the
\* end of the range.
C17_BatchesTile ==
    /\ BatchesContiguous
    /\ batches.done => BatchesComplete
    /\ Len(batches.out) <= batches.last - batches.first + 1

\* the reader thread has taken a range from _get_block_ranges
RangeTaken(p) == prod[p].rmode # "new" /\ prod[p].rnext > 0

\* C18: without a bmap and with an image of known size, blocks_cnt is the
\* size in blocks, rounded up, and _get_block_ranges yields the one range
\* (0, blocks_cnt - 1, None) and ends: it never takes the branch that yields
\* ranges without end.
C18_SingleRange ==
    (~f_bmap /\ ~compressed) =>
        /\ blocks_cnt * block_size >= image_len
        /\ (blocks_cnt - 1) * block_size < image_len
        /\ prod[1].rmode \in {"new", "single"}
        /\ prod[1].rnext <= 1
        /\ RangeTaken(1) =>
              /\ prod[1].first = 0
              /\ prod[1].last = blocks_cnt - 1
              /\ prod[1].sha1 = None

\* the consumer takes a data batch from the queue in this step
TakesBatch ==
    /\ cpc = "get"
    /\ batch_queue # <<>>
    /\ Head(batch_queue).tag = "range"
    /\ batch_queue' = Tail(batch_queue)

\* a sync is issued in this step: it succeeds or it fails
SyncIssued == synced' = synced + 1 \/ result' = "SyncError"

\* a watermark is configured
HasWatermark == dest_fsync_watermark # None /\ dest_fsync_watermark # 0

\* C19 as stated: the consumer syncs before writing a batch exactly when a
\* watermark is configured and more blocks than the watermark were written
\* since the last periodic sync.
C19_Original ==
    [][TakesBatch =>
         (SyncIssued <=> (HasWatermark /\
                          blocks_written - fsync_last > dest_fsync_watermark))]_vars

\* C19, amended: the consumer syncs before writing a batch exactly when a
\* watermark is configured and the blocks written since the last periodic
\* sync are at least the watermark; the sync comes before the write (when it
\* fails the batch is not written), and with no watermark nothing is synced
\* before the loop has ended.
C19_PeriodicSync ==
    /\ [][TakesBatch =>
            (SyncIssued <=> (HasWatermark /\
                             blocks_written - fsync_last >= dest_fsync_watermark))]_vars
    /\ [][(TakesBatch /\ result' = "SyncError") =>
            (write_log' = write_log /\ dest' = dest)]_vars
    /\ []((~HasWatermark /\ cpc \in {"idle", "get", "post"}) => synced = 0)
    /\ [](is_bdev <=> HasWatermark)

\* a block device: the second batch was written after a sync, when as many
\* blocks as the watermark had been written
C19_Witness ==
    /\ is_bdev
    /\ cpc = "get"
    /\ synced = 1
    /\ fsync_last = dest_fsync_watermark
    /\ Len(write_log) = 2

\* the data items that the reader thread has made: those in the queue and
\* the one it is about to put
DataItems ==
    {batch_queue[k] : k \in {j \in 1..Len(batch_queue) :
                                 batch_queue[j].tag = "range"}}
        \cup (IF prod[1].pc = "put" THEN {prod[1].pend} ELSE {})

\* C20: every data item of the reader thread has length = end - start + 1,
\* at least one block, and data of no more than length blocks and more than
\* length - 1 blocks; the assertion of the consumer never fails.
C20_ItemsWellFormed ==
    /\ \A it \in DataItems :
          /\ it.length = it.end - it.start + 1
          /\ it.length >= 1
          /\ Len(it.buf) <= it.length * block_size
          /\ Len(it.buf) > (it.length - 1) * block_size
    /\ result # "AssertionError"

\* a batch of two blocks was read short, its second block is not whole, and
\* it waits in the queue
C20_Witness ==
    \E it \in DataItems :
        /\ it.length = 2
        /\ Len(it.buf) < it.length * block_size
        /\ it \in {batch_queue[k] : k \in 1..Len(batch_queue)}

\* the start blocks of the writes of this copy() call go up strictly
WritesGoUp ==
    \A k \in 1..(Len(write_log) - 1) : write_log[k].start < write_log[k + 1].start

\* every range of the bmap begins above the end of the range before it
RangesGoUp ==
    \A k \in 1..(Len(bmap_ranges) - 1) :
        bmap_ranges[k].last < bmap_ranges[k + 1].first

\* C21 as stated: in a session with a bmap, every write of a copy() call
\* starts at a block above the one the write before it started at.
C21_Original == f_bmap => WritesGoUp

\* C21, amended: the same, for the bmaps whose ranges are in increasing order
\* and do not overlap (ranges are copied in the order the bmap lists them,
\* which no code compares with the block numbers).
C21_IncreasingWrites == (f_bmap /\ RangesGoUp) => WritesGoUp

\* a copy of two ranges in increasing order has returned after two writes
C21_Witness ==
    /\ f_bmap /\ CopyReturned
    /\ Len(bmap_ranges) = 2 /\ RangesGoUp
    /\ Len(write_log) = 2
    /\ write_log[1].start < write_log[2].start

\* ------------------------------ a second copy() call on a block device
\* BmapBdevCopy.copy has returned or raised and the caller calls it again on
\* the same session: old_scheduler_value and old_max_ratio_value, set to None
\* in __init__ only, are what the first call left
BdevCopyAgain ==
    /\ is_bdev
    /\ cpc = "done"
    /\ prod[2].pc = "unstarted"
    /\ cpc' = "idle"
    /\ first_call' = [ended |-> TRUE, result |-> result, verify |-> verify,
                      writes |-> write_log]
    /\ read_log' = <<>>
    /\ write_log' = <<>>
    /\ UNCHANGED <<sessVars, sizeVars, fileVars, verify, saved_pos,
                   batch_queue, blocks_written, fsync_last, result, prod,
                   bdevVars, total_read, synced, pre_pos, batches>>

\* what the sysfs files of the device hold before the session touches them
OriginalScheduler == "cfq"
OriginalMaxRatio == "100"

\* a BmapBdevCopy session on a device that fits the image, of at most
\* MaxBlock blocks, and whose scheduler is OriginalScheduler
InitBdevAgain ==
    /\ InitBdev
    /\ image_len <= MaxBlock * BlockSize
    /\ bdev_size = DestSize
    /\ sysfs_scheduler = OriginalScheduler
    /\ sysfs_max_ratio = OriginalMaxRatio

NextBdevAgain ==
    \/ NextBdev
    \/ BdevCopyAgain
    \/ \E v \in BOOLEAN : CopyStart(2, v)
    \/ ReaderStep(2)

SpecBdevAgain == InitBdevAgain /\ [][NextBdevAgain]_vars

\* the reader thread started by the copy() call that is running, or that ran
\* last
CurrentProd == IF prod[2].pc = "unstarted" THEN 1 ELSE 2

\* C22: over a sequence of copy() calls on one session, a call that raised
\* included, every item in the queue of the running call, hence every item
\* its consumer takes, was put by the reader thread that call started, and no
\* reader thread of an earlier call is still about to put into that queue.
C22_OwnProducerOnly ==
    cpc \in {"get", "post"} =>
        /\ \A k \in 1..Len(batch_queue) : batch_queue[k].by = CurrentProd
        /\ \A q \in ProdIds :
               q < CurrentProd => prod[q].pc \in {"done", "stuck", "unstarted"}

\* C22, the part about the items alone
C22_ItemsOnly ==
    cpc \in {"get", "post"} =>
        \A k \in 1..Len(batch_queue) : batch_queue[k].by = CurrentProd

\* the bytes of the image in the blocks of the range the reader thread was
\* verifying when it stopped
OffendingBytes ==
    {i \in 0..(image_len - 1) : /\ prod[CurrentProd].first <= BlockOf(i)
                                /\ BlockOf(i) <= prod[CurrentProd].last}

\* C23: when copy(verify = true) fails with the checksum mismatch of a range,
\* every batch read before the mismatch was found (the batches of the ranges
\* before it and of the range itself) has been written: the error record was
\* taken after all of them, and the destination holds the bytes of the range.
C23_WrittenBeforeMismatch ==
    result = "ChecksumMismatch" =>
        /\ verify /\ prod[CurrentProd].exc = "ChecksumMismatch"
        /\ write_log = read_log
        /\ \A i \in OffendingBytes : dest[i] = ImageByte(i)
        /\ RangesInsideImage =>
               blocks_written =
                   BlocksInRanges(SubSeq(bmap_ranges, 1, prod[CurrentProd].rnext))

\* the first range has its checksum, the second range, of one block, has not:
\* both batches are in the destination when the mismatch is raised
C23_Witness ==
    /\ CopyEnded /\ result = "ChecksumMismatch"
    /\ Len(bmap_ranges) = 2 /\ prod[CurrentProd].rnext = 2
    /\ ~RangeMismatch(bmap_ranges[1]) /\ RangeMismatch(bmap_ranges[2])
    /\ bmap_ranges[1].last < bmap_ranges[2].first
    /\ Len(write_log) = 2 /\ write_log = read_log
    /\ \A i \in OffendingBytes : dest[i] = ImageByte(i)

\* C24: over a sequence of copy() calls on one block-device session, whenever
\* the restoration is about to run, the scheduler and the write-buffering
\* ratio it will write are the ones the device had before the session first
\* tuned it: the tuning has not saved 'noop' or '1' left by an earlier call.
C24_RestoresOriginal ==
    (is_bdev /\ cpc = "except") =>
        /\ old_scheduler_value \in {"None", OriginalScheduler}
        /\ old_max_ratio_value \in {"None", OriginalMaxRatio}
====
